---------------------------- MODULE Spec2Model ----------------------------
(***************************************************************************)
(* A model of the lmk crash reporter (src/src/lib.rs): the activation      *)
(* policy of init_crash_reporter, the panic hook it installs, the report   *)
(* the hook builds and serializes, the path it writes it to, and what it   *)
(* prints to stderr.                                                       *)
(*                                                                         *)
(* Text is modelled as a sequence of pieces (strings); concatenation of    *)
(* text is \o.  A newline is the piece NL.  Paths, ids, the serialized     *)
(* report and the stderr stream are all text.                              *)
(***************************************************************************)
EXTENDS Integers, Sequences, FiniteSets, TLC

(***************************************************************************)
(* Bounds of the model.                                                    *)
(***************************************************************************)
\* the clock (milliseconds since the epoch) ranges over 1..MaxClock
MaxClock == 2
\* the random part of an id is drawn from 0..MaxRand
MaxRand == 1

(***************************************************************************)
(* Text helpers.                                                           *)
(***************************************************************************)
NL == "\n"

RECURSIVE Repeat(_, _)
\* str::repeat: n copies of the piece s
Repeat(s, n) == IF n = 0 THEN <<>> ELSE <<s>> \o Repeat(s, n - 1)

Last(s) == s[Len(s)]


(***************************************************************************)
(* Option<T>: None is the empty sequence, Some(x) the one-element one.     *)
(***************************************************************************)
None == <<>>

Some(x) == <<x>>

(***************************************************************************)
(* Paths (std::path::PathBuf), as text whose separator is the piece "/".   *)
(***************************************************************************)
IsAbsolute(p) == Len(p) > 0 /\ p[1] = "/"

\* PathBuf::join / push: an absolute argument replaces the whole path;
\* otherwise a separator is added unless the path already ends with one
Join(p, q) ==
    IF IsAbsolute(q) THEN q
    ELSE IF Len(p) = 0 THEN q
    ELSE IF Last(p) = "/" THEN p \o q
    ELSE p \o <<"/">> \o q

RECURSIVE LastIndexBefore(_, _, _)
\* the greatest index i <= n with p[i] = c, 0 when there is none
LastIndexBefore(p, c, n) ==
    IF n = 0 THEN 0 ELSE IF p[n] = c THEN n ELSE LastIndexBefore(p, c, n - 1)

\* the index of the last piece of p equal to c, 0 when there is none
LastIndexOf(p, c) == LastIndexBefore(p, c, Len(p))

\* Path::file_name: what follows the last separator
FileName(p) == SubSeq(p, LastIndexOf(p, "/") + 1, Len(p))

\* Path::parent
Parent(p) == SubSeq(p, 1, LastIndexOf(p, "/") - 1)

\* Path::file_stem: the file name up to its last dot, a leading dot excepted
FileStem(name) ==
    LET d == LastIndexOf(name, ".")
    IN  IF d <= 1 THEN name ELSE SubSeq(name, 1, d - 1)

\* Path::with_extension: the file name's extension is replaced, or added
WithExtension(p, ext) ==
    IF FileName(p) = <<>> THEN p
    ELSE Join(Parent(p), FileStem(FileName(p)) \o <<".", ext>>)

\* std::env::temp_dir()
TempDir == <<"/", "tmp">>

(***************************************************************************)
(* Ulid (ulid::Generator::new().generate().to_string()): a fresh generator *)
(* has no previous id, so the id is the current time in milliseconds       *)
(* followed by fresh random bits; its text is fixed-width Crockford        *)
(* base 32, the time part first.                                           *)
(***************************************************************************)
Alphabet ==
    << "0", "1", "2", "3", "4", "5", "6", "7", "8", "9", "A", "B", "C", "D",
       "E", "F", "G", "H", "J", "K", "M", "N", "P", "Q", "R", "S", "T", "V",
       "W", "X", "Y", "Z" >>

Base == Len(Alphabet)

\* characters of the time part and of the random part of an id's text (10 and
\* 16 in a real Ulid; the model's clock and random values need fewer)
TimeChars == 2
RandChars == 1

RECURSIVE Encode(_, _)
\* n in fixed width w, most significant digit first
Encode(n, w) ==
    IF w = 0 THEN <<>> ELSE Encode(n \div Base, w - 1) \o <<Alphabet[(n % Base) + 1]>>

UlidGenerate(now, rnd) == [time |-> now, random |-> rnd]

UlidToString(u) == Encode(u.time, TimeChars) \o Encode(u.random, RandChars)

(***************************************************************************)
(* The process environment.                                                *)
(***************************************************************************)
\* an OS string: text that may or may not be valid Unicode
OsStrings == { [unicode |-> TRUE, value |-> <<"lmk">>],
               [unicode |-> FALSE, value |-> <<"\\xFF">>] }

\* the states of an environment variable
EnvUnset == [present |-> FALSE, unicode |-> TRUE, value |-> <<>>]

EnvStates ==
    { EnvUnset,
      [present |-> TRUE, unicode |-> TRUE, value |-> <<>>],
      [present |-> TRUE, unicode |-> TRUE, value |-> <<"1">>],
      [present |-> TRUE, unicode |-> FALSE, value |-> <<"\\xFF">>] }

\* std::env::var: Err(NotPresent), Err(NotUnicode) or Ok(value)
EnvVar(e) ==
    IF ~e.present THEN [ok |-> FALSE, err |-> "NotPresent", value |-> <<>>]
    ELSE IF ~e.unicode THEN [ok |-> FALSE, err |-> "NotUnicode", value |-> e.value]
    ELSE [ok |-> TRUE, err |-> "", value |-> e.value]

\* the invocation arguments a process may have been started with
ArgLists == {<<>>} \cup {<<a>> : a \in OsStrings}

\* std::env::args().next(): None without arguments; the iterator panics on
\* an argument that is not valid Unicode
ArgsNext(a) ==
    IF a = <<>> THEN [panicked |-> FALSE, value |-> None]
    ELSE IF ~a[1].unicode THEN [panicked |-> TRUE, value |-> None]
    ELSE [panicked |-> FALSE, value |-> Some(a[1].value)]

\* the states of the current working directory: unavailable (removed,
\* unreadable), or a path
CwdUnavailable == [available |-> FALSE, unicode |-> TRUE, value |-> <<>>]

CwdStates ==
    { CwdUnavailable,
      [available |-> TRUE, unicode |-> TRUE, value |-> <<"/", "home">>],
      [available |-> TRUE, unicode |-> FALSE, value |-> <<"/", "\\xFF">>] }

\* std::env::current_dir().ok()
CurrentDirOk(c) ==
    IF c.available THEN Some([unicode |-> c.unicode, value |-> c.value]) ELSE None

\* std::env::consts::OS
OS == <<"linux">>

(***************************************************************************)
(* Metadata and the panics a host may raise.                               *)
(***************************************************************************)
\* Metadata::new(name, version, repository)
MetadataNew(name, version, repository) ==
    [name |-> name, version |-> version, repository |-> repository]

\* the Metadata values hosts register with; a name is any non-empty text
Metadatas ==
    { MetadataNew(<<"app">>, <<"1.0">>, <<"https://example.org/app">>),
      MetadataNew(<<"/", "etc">>, <<"2.0">>, <<"https://example.org/etc">>) }

\* panic payloads: a &'static str (panic!("boom")), an owned String
\* (panic!("boom {}", 7)), and a value that is neither (panic_any(7))
Payloads ==
    { [kind |-> "&str", text |-> <<"boom">>],
      [kind |-> "String", text |-> <<"boom 7">>],
      [kind |-> "other", text |-> <<>>] }

\* the runtime always sets the location of a panic
Locations == { Some([file |-> "src/main.rs", line |-> "3", column |-> "5"]) }

PanicInfos == [payload : Payloads, location : Locations]

\* payload().downcast_ref::<&str>().map(|message| message.to_string())
PanicMessage(payload) ==
    IF payload.kind = "&str" THEN Some(payload.text) ELSE None

\* location().map(|loc| format!("{}:{}:{}", file, line, column))
PanicLocation(location) ==
    IF location = None THEN None
    ELSE Some(<<location[1].file, ":", location[1].line, ":", location[1].column>>)

\* DateTime::<Utc>::from(SystemTime::now()).to_rfc3339(), now in ms
ToRfc3339(now) == <<"1970-01-01T00:00:00.00", Alphabet[now + 1], "+00:00">>

\* std::backtrace::Backtrace::force_capture().to_string()
ForceCapture == <<"0: rust_begin_unwind">>

NoReport ==
    [captured_at |-> <<>>, package_name |-> <<>>, package_version |-> <<>>,
     binary_name |-> None, working_dir |-> None, operating_system |-> <<>>,
     panic_message |-> None, panic_location |-> <<>>, backtrace |-> <<>>]

\* Report::new: panics when reading the first argument panics or when the
\* panic has no location (.expect); otherwise the report
ReportNew(metadata, panic, now, a, c) ==
    LET binary_name == ArgsNext(a)
        panic_location == PanicLocation(panic.location)
    IN  IF binary_name.panicked \/ panic_location = None
        THEN [panicked |-> TRUE, report |-> NoReport]
        ELSE [panicked |-> FALSE,
              report |->
                [captured_at |-> ToRfc3339(now),
                 package_name |-> metadata.name,
                 package_version |-> metadata.version,
                 binary_name |-> binary_name.value,
                 working_dir |-> CurrentDirOk(c),
                 operating_system |-> OS,
                 panic_message |-> PanicMessage(panic.payload),
                 panic_location |-> panic_location[1],
                 backtrace |-> ForceCapture]]

(***************************************************************************)
(* toml::to_string_pretty(&report): one `key = "value"` line per field in  *)
(* declaration order, a None field left out.  Serializing a path that is   *)
(* not valid UTF-8 is an error.                                            *)
(***************************************************************************)
TomlLine(key, value) == <<key, " = \"">> \o value \o <<"\"", NL>>

TomlOption(key, opt) == IF opt = None THEN <<>> ELSE TomlLine(key, opt[1])

ToStringPretty(r) ==
    IF r.working_dir # None /\ ~r.working_dir[1].unicode
    THEN [ok |-> FALSE, content |-> <<>>]
    ELSE [ok |-> TRUE,
          content |->
            TomlLine("captured_at", r.captured_at)
            \o TomlLine("package_name", r.package_name)
            \o TomlLine("package_version", r.package_version)
            \o TomlOption("binary_name", r.binary_name)
            \o (IF r.working_dir = None THEN <<>>
                ELSE TomlLine("working_dir", r.working_dir[1].value))
            \o TomlLine("operating_system", r.operating_system)
            \o TomlOption("panic_message", r.panic_message)
            \o TomlLine("panic_location", r.panic_location)
            \o TomlLine("backtrace", r.backtrace)]

(***************************************************************************)
(* The panic hook (the closure given to std::panic::set_hook).             *)
(***************************************************************************)
\* temp_dir().join(&report.package_name).join("crash")
OutputDir(package_name) == Join(Join(TempDir, package_name), <<"crash">>)

\* output_dir.join(report_id).with_extension("toml")
ReportPath(output_dir, report_id) == WithExtension(Join(output_dir, report_id), "toml")

\* the outcomes of one filesystem call: success, or the text of an io::Error
IoOk == "ok"

IoResults == {IoOk, "Permission denied (os error 13)"}

\* fs::create_dir_all(output_dir).and_then(|_| fs::write(&report_path, &content)):
\* the filesystem calls made, in order, each with its outcome
Persist(output_dir, report_path, content, dirRes, writeRes) ==
    IF dirRes # IoOk
    THEN << [op |-> "create_dir_all", path |-> output_dir, content |-> <<>>,
             result |-> dirRes] >>
    ELSE << [op |-> "create_dir_all", path |-> output_dir, content |-> <<>>,
             result |-> dirRes],
            [op |-> "write", path |-> report_path, content |-> content,
             result |-> writeRes] >>

\* the Result of the sequence: that of its last call
PersistResult(ops) == ops[Len(ops)].result

\* "-".repeat(20)
SepLen == 20

Sep == Repeat("-", SepLen)

\* the failure branch printing only the six parts: no separator before the
\* failure detail nor before the content
FallbackDumpBare(report_path, e, content) ==
    <<"error: failed to save crash report to ">> \o report_path \o <<NL>>
    \o <<e, NL>> \o Sep \o <<NL>>
    \o <<"error: writing crash report directly to stderr", NL>>
    \o content \o <<NL>> \o Sep \o <<NL>>

\* the four eprintln! of the failure branch
FallbackDump(report_path, e, content) ==
    <<"error: failed to save crash report to ">> \o report_path \o <<NL>>
    \o Sep \o <<NL, e, NL>> \o Sep \o <<NL>>
    \o <<"error: writing crash report directly to stderr", NL>>
    \o Sep \o <<NL>> \o content \o <<NL>> \o Sep \o <<NL>>

\* the eprintln! of the success branch
SuccessNotice(package_name, report_path, repository) ==
    package_name \o <<" has crashed!", NL, NL, "A crash report has been saved to ">>
    \o report_path
    \o <<". To get support for this problem,", NL, "please raise an issue on GitHub at ">>
    \o repository
    \o <<"/issues and include the crash", NL,
         "report to help us better diagnose the problem.", NL>>

\* the hook without the return that ends the failure branch: the notice
\* follows the dump
HookOutputNoReturn(result, report, report_path, content, metadata) ==
    (IF result # IoOk THEN FallbackDump(report_path, result, content) ELSE <<>>)
    \o SuccessNotice(report.package_name, report_path, metadata.repository)

\* what the hook prints once the filesystem calls are made: on Err the dump,
\* and return; otherwise the notice
HookOutput(result, report, report_path, content, metadata) ==
    IF result # IoOk
    THEN FallbackDump(report_path, result, content)
    ELSE SuccessNotice(report.package_name, report_path, metadata.repository)

NoOutcome ==
    [aborted |-> FALSE, built |-> FALSE, report |-> NoReport, content |-> <<>>, id |-> <<>>,
     path |-> <<>>, ops |-> <<>>, out |-> <<>>]

\* one run of the hook: a panic inside it (Report::new, or the .expect on
\* the serialization) aborts the process before anything is written
PanicHook(metadata, panic, now, rnd, a, c, dirRes, writeRes) ==
    LET built == ReportNew(metadata, panic, now, a, c)
        report == built.report
        toml == ToStringPretty(report)
        content == toml.content
        output_dir == OutputDir(report.package_name)
        report_id == UlidToString(UlidGenerate(now, rnd))
        report_path == ReportPath(output_dir, report_id)
        ops == Persist(output_dir, report_path, content, dirRes, writeRes)
    IN  IF built.panicked THEN [NoOutcome EXCEPT !.aborted = TRUE]
        ELSE IF ~toml.ok
        THEN [NoOutcome EXCEPT !.aborted = TRUE, !.built = TRUE, !.report = report]
        ELSE [aborted |-> FALSE, built |-> TRUE, report |-> report, content |-> content,
              id |-> report_id, path |-> report_path, ops |-> ops,
              out |-> HookOutput(PersistResult(ops), report, report_path,
                                 content, metadata)]

\* the runtime's default hook: its own diagnostic
DefaultHook(panic) ==
    <<"thread 'main' panicked at ">> \o PanicLocation(panic.location)[1] \o <<NL>>

\* the runtime's message when a panic hook itself panics; the process aborts
AbortMessage == <<"thread panicked while processing panic. aborting.", NL>>

(***************************************************************************)
(* The state of the process.  The program only ever appends to the error   *)
(* stream and writes files, and reads neither: the model keeps what the    *)
(* latest panic added to each, not what older panics left there.           *)
(***************************************************************************)
VARIABLES
    build,          \* "release" or "debug": cfg!(debug_assertions)
    args,           \* the invocation arguments
    cwd,            \* the current working directory
    rustBacktrace,  \* the RUST_BACKTRACE environment variable
    clock,          \* SystemTime::now(), in milliseconds
    hook,           \* the installed panic hook: None (the default hook) or
                    \* Some(metadata), the closure and the Metadata it owns
    dirs,           \* the directories the latest panic created
    files,          \* the files the latest panic wrote: records [path, content]
    stderr,         \* what the latest panic sent to the error stream
    aborted,        \* the process aborted
    policyMeta,     \* history: the Metadata of the last init_crash_reporter
                    \* call made in a release build with RUST_BACKTRACE unset
    lastFault       \* history: the latest panic and what the hook did with it

vars ==
    << build, args, cwd, rustBacktrace, clock, hook, dirs, files, stderr,
       aborted, policyMeta, lastFault >>

NoFault ==
    [raised |-> FALSE, hooked |-> FALSE, metadata |-> None, policyMeta |-> None,
     payload |-> [kind |-> "other", text |-> <<>>], aborted |-> FALSE,
     built |-> FALSE, report |-> NoReport, id |-> <<>>, path |-> <<>>, ops |-> <<>>]

Init ==
    /\ build \in {"release", "debug"}
    /\ args \in ArgLists
    /\ cwd \in CwdStates
    /\ rustBacktrace = EnvUnset
    /\ clock = 1
    /\ hook = None
    /\ dirs = {}
    /\ files = {}
    /\ stderr = <<>>
    /\ aborted = FALSE
    /\ policyMeta = None
    /\ lastFault = NoFault

\* cfg!(not(debug_assertions))
IsReleaseMode == build = "release"

\* std::env::var("RUST_BACKTRACE").is_ok()
BacktraceEnabled == EnvVar(rustBacktrace).ok

\* the condition under which init_crash_reporter calls set_hook
Activates == IsReleaseMode /\ ~BacktraceEnabled

\* init_crash_reporter(metadata)
InitCrashReporter(metadata) ==
    /\ ~aborted
    /\ hook' = IF Activates THEN Some(metadata) ELSE hook
    /\ policyMeta' = IF build = "release" /\ ~rustBacktrace.present
                     THEN Some(metadata) ELSE policyMeta
    /\ UNCHANGED << build, args, cwd, rustBacktrace, clock, dirs, files, stderr,
                    aborted, lastFault >>

\* the host (or its environment) sets or removes RUST_BACKTRACE
SetBacktrace(e) ==
    /\ ~aborted
    /\ e # rustBacktrace
    /\ rustBacktrace' = e
    /\ UNCHANGED << build, args, cwd, clock, hook, dirs, files, stderr, aborted,
                    policyMeta, lastFault >>

\* a millisecond passes
Tick ==
    /\ ~aborted
    /\ clock < MaxClock
    /\ clock' = clock + 1
    /\ UNCHANGED << build, args, cwd, rustBacktrace, hook, dirs, files, stderr,
                    aborted, policyMeta, lastFault >>

\* the directories the filesystem calls ops created
DirsCreated(ops) ==
    {ops[i].path : i \in {j \in 1..Len(ops) :
                            ops[j].op = "create_dir_all" /\ ops[j].result = IoOk}}

\* the files the filesystem calls ops wrote
FilesWritten(ops) ==
    {[path |-> ops[i].path, content |-> ops[i].content] :
        i \in {j \in 1..Len(ops) : ops[j].op = "write" /\ ops[j].result = IoOk}}

\* a panic is raised (on any thread, or caught by catch_unwind: the process
\* lives on unless the hook itself panics) and the installed hook runs
Panic(panic, rnd, dirRes, writeRes) ==
    /\ ~aborted
    /\ IF hook = None
       THEN /\ stderr' = DefaultHook(panic)
            /\ dirs' = {}
            /\ files' = {}
            /\ lastFault' = [NoFault EXCEPT !.raised = TRUE,
                                            !.payload = panic.payload,
                                            !.policyMeta = policyMeta]
            /\ UNCHANGED aborted
       ELSE \E o \in {PanicHook(hook[1], panic, clock, rnd, args, cwd, dirRes, writeRes)} :
                /\ aborted' = o.aborted
                /\ stderr' = IF o.aborted THEN AbortMessage ELSE o.out
                /\ dirs' = DirsCreated(o.ops)
                /\ files' = FilesWritten(o.ops)
                /\ lastFault' = [raised |-> TRUE, hooked |-> TRUE,
                                 metadata |-> hook, policyMeta |-> policyMeta,
                                 payload |-> panic.payload, aborted |-> o.aborted,
                                 built |-> o.built, report |-> o.report, id |-> o.id,
                                 path |-> o.path, ops |-> o.ops]
    /\ UNCHANGED << build, args, cwd, rustBacktrace, clock, hook, policyMeta >>

Next ==
    \/ \E m \in Metadatas : InitCrashReporter(m)
    \/ \E e \in EnvStates : SetBacktrace(e)
    \/ Tick
    \/ \E p \in PanicInfos, rnd \in 0..MaxRand, dirRes \in IoResults, writeRes \in IoResults :
          Panic(p, rnd, dirRes, writeRes)

Spec == Init /\ [][Next]_vars

(***************************************************************************)
(* Vocabulary of the properties.                                           *)
(***************************************************************************)
\* the documented activation policy: a release build, RUST_BACKTRACE not set
PolicyPasses == build = "release" /\ ~rustBacktrace.present

\* the hook ran on the latest panic
Hooked == lastFault.raised /\ lastFault.hooked

\* the text the hook serialized on the latest panic
Serialized == ToStringPretty(lastFault.report).content

\* t occurs in s as a contiguous run of pieces
Occurs(t, s) == \E i \in 0..(Len(s) - Len(t)) : SubSeq(s, i + 1, i + Len(t)) = t

\* t is the beginning of s
StartsWith(s, t) == Len(t) <= Len(s) /\ SubSeq(s, 1, Len(t)) = t

\* stderr holds the success notice
NoticePrinted == Occurs(<<" has crashed!", NL>>, stderr)

\* stderr holds the fallback dump with the full serialized content
DumpPrinted ==
    /\ Occurs(<<"error: writing crash report directly to stderr", NL>>, stderr)
    /\ Occurs(Serialized, stderr)

\* the filesystem calls of the latest panic of the given kind
OpsOf(kind) == {i \in 1..Len(lastFault.ops) : lastFault.ops[i].op = kind}

\* directory creation and the write both succeeded
Saved ==
    /\ Len(lastFault.ops) = 2
    /\ \A i \in 1..2 : lastFault.ops[i].result = IoOk

\* directory creation or the write failed
SaveFailed ==
    /\ lastFault.ops # <<>>
    /\ PersistResult(lastFault.ops) # IoOk

\* a line of twenty dashes
Dashes == <<"-", "-", "-", "-", "-", "-", "-", "-", "-", "-",
            "-", "-", "-", "-", "-", "-", "-", "-", "-", "-", NL>>

\* the position of a piece in the alphabet of ids
Rank(c) == CHOOSE i \in 1..Len(Alphabet) : Alphabet[i] = c

\* s <= t in lexicographic order, for texts of the same length
LexLeq(s, t) ==
    \/ s = t
    \/ \E i \in 1..Len(s) :
          /\ SubSeq(s, 1, i - 1) = SubSeq(t, 1, i - 1)
          /\ Rank(s[i]) < Rank(t[i])

(***************************************************************************)
(* C1.  init_crash_reporter installs the hook if and only if the build is  *)
(* a release build and RUST_BACKTRACE is absent; otherwise (a debug build, *)
(* or the variable present with any value, valid Unicode or not) the call  *)
(* installs nothing, and a panic under the default hook produces none of   *)
(* the reporter's output or files.                                         *)
(***************************************************************************)
C1_InstallsIffPolicyPasses ==
    [][ /\ \A m \in Metadatas :
              InitCrashReporter(m) =>
                  IF PolicyPasses THEN hook' = Some(m) ELSE hook' = hook
        /\ (lastFault' # lastFault /\ hook = None) =>
              /\ files' = {} /\ dirs' = {}
              /\ ~NoticePrinted' /\ ~DumpPrinted' ]_vars

(***************************************************************************)
(* C2.  For every panic the installed hook handles, whatever the state of  *)
(* the environment, stderr receives exactly one of the success notice and  *)
(* the full fallback dump: never both, never neither.                      *)
(***************************************************************************)
C2_NoticeOrDump == Hooked => (NoticePrinted /\ ~DumpPrinted) \/ (DumpPrinted /\ ~NoticePrinted)

(***************************************************************************)
(* C3.  As claimed: when directory creation or the write fails, stderr     *)
(* receives exactly (a) the message naming the report path, (b) the        *)
(* failure detail, (c) a separator, (d) the message announcing the         *)
(* fallback, (e) the serialized content, (f) a closing separator, with     *)
(* nothing in between.                                                     *)
(***************************************************************************)
C3_SixPartsNothingBetween ==
    (Hooked /\ SaveFailed) =>
        stderr = <<"error: failed to save crash report to ">> \o lastFault.path \o <<NL>>
                 \o <<PersistResult(lastFault.ops), NL>>
                 \o Dashes
                 \o <<"error: writing crash report directly to stderr", NL>>
                 \o Serialized \o <<NL>>
                 \o Dashes

(***************************************************************************)
(* C3, amended.  When directory creation or the write fails, stderr        *)
(* receives exactly: (a) the message naming the report path, a separator,  *)
(* (b) the failure detail, (c) a separator, (d) the message announcing the *)
(* fallback, a separator, (e) the serialized content, identical to the     *)
(* text the write was given, (f) a closing separator; nothing else.        *)
(***************************************************************************)
C3_FramedDump ==
    (Hooked /\ SaveFailed) =>
        /\ stderr = <<"error: failed to save crash report to ">> \o lastFault.path \o <<NL>>
                    \o Dashes
                    \o <<PersistResult(lastFault.ops), NL>>
                    \o Dashes
                    \o <<"error: writing crash report directly to stderr", NL>>
                    \o Dashes
                    \o Serialized \o <<NL>>
                    \o Dashes
        /\ \A i \in OpsOf("write") : lastFault.ops[i].content = Serialized

\* the write was attempted and failed, and the hook printed the dump
C3_Witness ==
    /\ Hooked /\ SaveFailed
    /\ OpsOf("write") # {}
    /\ DumpPrinted

(***************************************************************************)
(* C4.  Report::new never panics because of the environment: whatever the  *)
(* invocation arguments and the working directory are, it completes, and   *)
(* binary_name (working_dir) is None when the first argument (the working  *)
(* directory) is missing, unreadable or not representable as text.         *)
(***************************************************************************)
C4_ReportNewNeverPanics ==
    Hooked =>
        /\ lastFault.built
        /\ (args = <<>> \/ ~args[1].unicode) => lastFault.report.binary_name = None
        /\ (~cwd.available \/ ~cwd.unicode) => lastFault.report.working_dir = None

(***************************************************************************)
(* C5.  panic_message is Some(X) when the payload is the text X, a static  *)
(* literal or an owned String alike, and None for any other payload; the   *)
(* report is built either way.                                             *)
(***************************************************************************)
C5_MessageOfEveryTextPayload ==
    (Hooked /\ lastFault.built /\ ~lastFault.aborted) =>
        lastFault.report.panic_message =
            IF lastFault.payload.kind \in {"&str", "String"}
            THEN Some(lastFault.payload.text) ELSE None

(***************************************************************************)
(* C6.  Over any sequence of panics the hook handles, also within one      *)
(* clock tick, the report ids are distinct and lexicographically           *)
(* non-decreasing in generation order: each id differs from, and is not    *)
(* below, the id generated before it.                                      *)
(***************************************************************************)
C6_IdsDistinctAndOrdered ==
    [][ (lastFault' # lastFault /\ lastFault.id # <<>> /\ lastFault'.id # <<>>) =>
            /\ lastFault'.id # lastFault.id
            /\ LexLeq(lastFault.id, lastFault'.id) ]_vars

(***************************************************************************)
(* C7.  For every Metadata with a non-empty name and every panic, the      *)
(* report path is <temp dir>/<name>/crash/<id>.toml: inside the temp       *)
(* directory, in a directory crash inside a directory named by name.       *)
(***************************************************************************)
C7_PathUnderTempDir ==
    (Hooked /\ lastFault.ops # <<>>) =>
        /\ lastFault.metadata[1].name # <<>>
        /\ lastFault.path = TempDir \o <<"/">> \o lastFault.metadata[1].name
                            \o <<"/", "crash", "/">> \o lastFault.id \o <<".", "toml">>
        /\ StartsWith(lastFault.path, TempDir \o <<"/">>)

(***************************************************************************)
(* C8.  The success notice is printed exactly when directory creation and  *)
(* the write both succeeded; then a file holding exactly the serialized    *)
(* report exists at the report path, and the notice is the one naming that *)
(* path, the name and the repository URL of the Metadata the hook was      *)
(* registered with.                                                        *)
(***************************************************************************)
C8_NoticeIffSaved ==
    Hooked =>
        /\ NoticePrinted <=> Saved
        /\ Saved =>
              /\ [path |-> lastFault.path, content |-> Serialized] \in files
              /\ \A f \in files : f.path = lastFault.path => f.content = Serialized
              /\ stderr =
                    lastFault.metadata[1].name
                    \o <<" has crashed!", NL, NL, "A crash report has been saved to ">>
                    \o lastFault.path
                    \o <<". To get support for this problem,", NL,
                         "please raise an issue on GitHub at ">>
                    \o lastFault.metadata[1].repository
                    \o <<"/issues and include the crash", NL,
                         "report to help us better diagnose the problem.", NL>>

\* the hook saved a report and printed the notice
C8_Witness == Hooked /\ Saved /\ NoticePrinted /\ files # {}

(***************************************************************************)
(* C9.  Each panic the hook handles makes a single persistence attempt:    *)
(* exactly one create_dir_all, at most one write, the write only after     *)
(* create_dir_all succeeded, nothing after a failure; a panic whose        *)
(* directory creation fails creates no file.                               *)
(***************************************************************************)
C9_SinglePersistenceAttempt ==
    Hooked =>
        /\ Cardinality(OpsOf("create_dir_all")) = 1
        /\ Cardinality(OpsOf("write")) <= 1
        /\ \A i \in OpsOf("write") :
              \E j \in OpsOf("create_dir_all") : j < i /\ lastFault.ops[j].result = IoOk
        /\ \A i \in 1..(Len(lastFault.ops) - 1) : lastFault.ops[i].result = IoOk
        /\ (\E j \in OpsOf("create_dir_all") : lastFault.ops[j].result # IoOk) => files = {}

(***************************************************************************)
(* C10.  Over any interleaving of init calls, changes of RUST_BACKTRACE    *)
(* and panics, the installed hook changes only at an init call that passes *)
(* the activation policy, it is never removed, and every panic is reported *)
(* with the Metadata of the most recent init call that passed the policy.  *)
(***************************************************************************)
C10_HookFollowsPassingInits ==
    [][ /\ hook' # hook =>
              \E m \in Metadatas : InitCrashReporter(m) /\ PolicyPasses /\ hook' = Some(m)
        /\ hook # None => hook' # None
        /\ lastFault' # lastFault =>
              /\ lastFault'.hooked <=> policyMeta # None
              /\ lastFault'.metadata = policyMeta ]_vars

=============================================================================
